---- MODULE Spec2Model ----
(***************************************************************************)
(* Model of the sequelize-project service layer: UserService and           *)
(* PostService over BaseRepository / UserRepository / PostRepository and   *)
(* the Users, Profiles, Posts, Tags and PostTags tables.                   *)
(*                                                                         *)
(* Every request is a process that runs one service method; each `await`   *)
(* of the method is one atomic step, so requests interleave between their  *)
(* database statements.  The tables hold the committed rows.  A statement  *)
(* issued with { transaction } goes to the write set of the calling        *)
(* request and reaches the tables at commit; a statement that would touch  *)
(* a row or a unique key written by another open transaction waits for     *)
(* that transaction to end (PostgreSQL, read committed, config.json).      *)
(***************************************************************************)
EXTENDS Integers, Sequences, FiniteSets, TLC

\* ------------------------------------------------------------------ bounds

\* Number of service calls started in one behaviour.
MaxCalls == 2

\* Number of posts created before the pages are read (PaginateSpec).
MaxCreated == 23

\* Concurrent requests.
Procs == {1, 2}

\* ------------------------------------------------------------------ state

VARIABLES
  Users,          \* committed rows of table Users
  Profiles,       \* committed rows of table Profiles
  Posts,          \* committed rows of table Posts
  PostTags,       \* committed rows of table PostTags, as the number of rows per <<postId, tagId>>
  nextUserId,     \* sequence behind Users.id
  nextProfileId,  \* sequence behind Profiles.id
  nextPostId,     \* sequence behind Posts.id
  proc,           \* per request: the running service method, its position and locals
  calls           \* service calls started so far

vars == <<Users, Profiles, Posts, PostTags, nextUserId, nextProfileId, nextPostId, proc, calls>>

db == <<Users, Profiles, Posts, PostTags>>
seqs == <<nextUserId, nextProfileId, nextPostId>>

\* ------------------------------------------------------------------ entity model

\* User.username validate.len
UsernameMin == 3
UsernameMax == 30
\* Profile.firstName / lastName validate.len
NameMin == 2
NameMax == 50
\* Post.title validate.len
TitleMin == 5
TitleMax == 200
\* Post.content validate.len
ContentMin == 10
ContentMax == 5000

UsernameValid(u) == Len(u) >= UsernameMin /\ Len(u) <= UsernameMax

\* validate.isEmail, reduced to: one "@" with a non-empty part on each side
IsEmail(e) ==
  /\ Cardinality({i \in 1..Len(e) : SubSeq(e, i, i) = "@"}) = 1
  /\ SubSeq(e, 1, 1) # "@"
  /\ SubSeq(e, Len(e), Len(e)) # "@"

\* Fault: the names are only required not to be empty.
NameNotEmpty(n) == Len(n) >= 1

NameValid(n) == Len(n) >= NameMin /\ Len(n) <= NameMax
\* Fault: the title has an upper limit only.
TitleNotTooLong(t) == Len(t) <= TitleMax

TitleValid(t) == Len(t) >= TitleMin /\ Len(t) <= TitleMax
ContentValid(c) == Len(c) >= ContentMin /\ Len(c) <= ContentMax

\* Tags are created by the seeder only: no route creates or deletes a Tag.
Tags == {1, 2, 3}

\* The rows the demo-data seeder inserts.
SeedUsers ==
  { [id |-> 1, username |-> "john_doe", email |-> "john@example.com"],
    [id |-> 2, username |-> "jane_smith", email |-> "jane@example.com"] }

SeedProfiles ==
  { [id |-> 1, userId |-> 1, firstName |-> "John", lastName |-> "Doe"],
    [id |-> 2, userId |-> 2, firstName |-> "Jane", lastName |-> "Smith"] }

SeedPosts ==
  { [id |-> 1, userId |-> 1, title |-> "Getting Started with Sequelize",
     content |-> "This is a comprehensive guide to Sequelize...", isPublished |-> TRUE],
    [id |-> 2, userId |-> 1, title |-> "Understanding Database Relations",
     content |-> "In this post, we explore different relation types...", isPublished |-> TRUE],
    [id |-> 3, userId |-> 2, title |-> "Advanced Sequelize Patterns",
     content |-> "Learn about repositories and services...", isPublished |-> FALSE] }

SeedPostTags == { <<1, 1>>, <<1, 2>>, <<2, 3>>, <<3, 1>>, <<3, 2>> }

\* ------------------------------------------------------------------ PostTags rows

\* PostTags maps a <<postId, tagId>> pair to its number of rows (the id column is dropped).
RowCount(pt, pair) == IF pair \in DOMAIN pt THEN pt[pair] ELSE 0

TagsOfPost(pt, postId) == {t \in Tags : RowCount(pt, <<postId, t>>) > 0}

\* DELETE FROM PostTags WHERE postId = .. AND tagId IN (..)
DeletePairs(pt, pairs) == [x \in (DOMAIN pt) \ pairs |-> pt[x]]

\* INSERT INTO PostTags, one row per pair
InsertPairs(pt, pairs) == [x \in (DOMAIN pt) \cup pairs |-> RowCount(pt, x) + (IF x \in pairs THEN 1 ELSE 0)]

\* ------------------------------------------------------------------ requests

NoUserData == [keys |-> {}, username |-> "", email |-> ""]
NoProfileData == [given |-> FALSE, keys |-> {}, firstName |-> "", lastName |-> ""]
NoPostData == [title |-> "", content |-> "", isPublished |-> FALSE]

\* data, total, page, limit, totalPages: the page a paginate returns
NoResult ==
  [users |-> {}, profiles |-> {}, posts |-> {}, tags |-> {},
   data |-> <<>>, total |-> 0, page |-> 0, limit |-> 0, totalPages |-> 0]

Idle ==
  [ op |-> "idle", pc |-> "idle", status |-> "none", err |-> "none", tx |-> "none",
    id |-> 0, userData |-> NoUserData, profileData |-> NoProfileData, tagIds |-> <<>>,
    inst |-> {}, prof |-> {}, obsolete |-> {}, unassoc |-> {}, pending |-> {},
    txUsers |-> {}, txProfiles |-> {}, wrote |-> FALSE,
    preUsers |-> {}, preProfiles |-> {}, preTags |-> {}, removed |-> {}, cascaded |-> {},
    afterDelete |-> FALSE, n |-> 0, rivals |-> {}, postData |-> NoPostData,
    pageArg |-> <<>>, limitArg |-> <<>>, txEnds |-> <<>>, cause |-> "none",
    result |-> NoResult ]

\* A request that enters service method op.
\* pre*, removed, cascaded, afterDelete, n, rivals and wrote (the call wrote or deleted
\* a row) are history: no step reads them.  txEnds: the commit() and rollback() calls
\* made on the transaction of the request, in order.  cause: the error thrown by the
\* statement that failed, err: the error the service method throws.
Start(op) == [Idle EXCEPT !.op = op]

ById(rows, id) == {r \in rows : r.id = id}
ByUserId(rows, userId) == {r \in rows : r.userId = userId}

\* The slot of request p is free: it serves no request, or its last one has ended.
Free(p) == proc[p].pc \in {"idle", "done"}

\* Requests other than p that hold an open transaction.
OtherTx(p) == {q \in Procs \ {p} : proc[q].tx = "open"}

\* Profiles rows a transaction inserted (not yet in the table), as opposed to updated.
Inserted(rows, table) == {r \in rows : ById(table, r.id) = {}}

Init ==
  /\ Users = SeedUsers
  /\ Profiles = SeedProfiles
  /\ Posts = SeedPosts
  /\ PostTags = [x \in SeedPostTags |-> 1]
  /\ nextUserId = 3
  /\ nextProfileId = 3
  /\ nextPostId = 4
  /\ proc = [p \in Procs |-> Idle]
  /\ calls = 0

\* ------------------------------------------------------------------ request inputs

UserData(u, e) == [keys |-> {"username", "email"}, username |-> u, email |-> e]

\* req.body.user of POST /users: a new user, the same handle with another email, the
\* same email with another handle, the handle of a seeded user, a handle of two
\* characters, an email without "@"
CreateUserInputs ==
  { UserData("alice", "alice@example.com"),
    UserData("alice", "amy@example.com"),
    UserData("amy", "alice@example.com"),
    UserData("john_doe", "amy@example.com"),
    UserData("al", "al@example.com"),
    UserData("alice", "alice.example.com") }

\* req.body.profile: absent, valid, with a last name of one character
ProfileInputs ==
  { NoProfileData,
    [given |-> TRUE, keys |-> {"firstName", "lastName"}, firstName |-> "Alice", lastName |-> "Smith"],
    [given |-> TRUE, keys |-> {"firstName", "lastName"}, firstName |-> "Alice", lastName |-> "A"] }

\* ------------------------------------------------------------------ storage

\* transaction.commit(): the written rows replace the committed rows of the same id
Commit(table, writes) == {r \in table : \A w \in writes : w.id # r.id} \cup writes

\* Fault: the catch block ends the transaction without undoing its writes.
RollbackKeepsWrites(table, writes) == Commit(table, writes)

\* transaction.rollback(): the written rows are dropped
Rollback(table, writes) == table

\* Fault: Users without its unique indexes.
NoUserUniqueIndex(row) == FALSE

\* Unique indexes of Users (username, email): a committed row of another id holds the key.
UserUniqueViolation(row) ==
  \E c \in Users : c.id # row.id /\ (c.username = row.username \/ c.email = row.email)

\* Fault: uniqueness looked up in the committed rows only, as the pre-check does.
NoUserUniqueWait(p, row) == FALSE

\* The key is held by a row another open transaction wrote, or by the committed
\* version of a row another open transaction is changing: the statement waits.
UserUniqueWait(p, row) ==
  \E q \in OtherTx(p) : \E w \in proc[q].txUsers :
    \/ w.id # row.id /\ (w.username = row.username \/ w.email = row.email)
    \/ \E c \in ById(Users, w.id) :
         c.id # row.id /\ (c.username = row.username \/ c.email = row.email)

\* Fault: Profiles.userId declared without unique: true.
NoProfileUniqueIndex(row) == FALSE

\* Unique index of Profiles (userId)
ProfileUniqueViolation(row) == \E c \in Profiles : c.id # row.id /\ c.userId = row.userId

ProfileUniqueWait(p, row) ==
  \E q \in OtherTx(p) : \E w \in proc[q].txProfiles : w.id # row.id /\ w.userId = row.userId

\* The Users row is locked by another open transaction: it updated the row, or it
\* inserted a Profiles row that references it.
UserRowLocked(p, id) ==
  \E q \in OtherTx(p) :
    \/ ById(proc[q].txUsers, id) # {}
    \/ ByUserId(Inserted(proc[q].txProfiles, Profiles), id) # {}

\* Another open transaction changed the Users row (a referencing insert waits for it).
UserRowChanging(p, id) == \E q \in OtherTx(p) : ById(proc[q].txUsers, id) # {}

\* Another open transaction changed the Profiles row.
ProfileRowLocked(p, id) == \E q \in OtherTx(p) : ById(proc[q].txProfiles, id) # {}

\* Fault: the referencing columns are declared without their foreign keys.
NoForeignKey(rows, id) == FALSE

\* Foreign key (references: { model, key: 'id' }): the referenced row is not there.
ForeignKeyViolation(rows, id) == ById(rows, id) = {}

\* Model.create validation of a User
UserValid(row) == UsernameValid(row.username) /\ IsEmail(row.email)

\* Model.create validation of a Profile: firstName and lastName are allowNull: false
ProfileCreateValid(data) ==
  /\ {"firstName", "lastName"} \subseteq data.keys
  /\ NameValid(data.firstName)
  /\ NameValid(data.lastName)

\* ------------------------------------------------------------------ outcomes

Ok(p, result) ==
  [proc[p] EXCEPT !.pc = "done", !.status = "ok", !.result = result,
                  !.txUsers = {}, !.txProfiles = {}]

\* throw, after transaction.rollback() when a transaction is open
Fail(p, e) ==
  [proc[p] EXCEPT !.pc = "done", !.status = "error", !.err = e, !.cause = e,
                  !.tx = IF @ = "open" THEN "rolledback" ELSE @,
                  !.txEnds = IF proc[p].tx = "open" THEN Append(@, "rollback") ELSE @,
                  !.txUsers = {}, !.txProfiles = {}]

\* rows of the include of findUserById: the user, its profile and its posts
FullUser(id) ==
  [users |-> ById(Users, id), profiles |-> ByUserId(Profiles, id), posts |-> ByUserId(Posts, id),
   tags |-> {}, data |-> <<>>, total |-> 0, page |-> 0, limit |-> 0, totalPages |-> 0]

\* ------------------------------------------------------------------ UserService.createUser

\* Fault: the lookup before the transaction compares the username only.
ExistingUsername(userData) == {c \in Users : c.username = userData.username}

\* User.findOne({ where: { [Op.or]: [{ username }, { email }] } })
ExistingUser(userData) ==
  {c \in Users : c.username = userData.username \/ c.email = userData.email}

\* User.findOne({ where: username or email }); throw, or open the transaction
CreateUserCheck(p) ==
  /\ Free(p)
  /\ calls < MaxCalls
  /\ \E userData \in CreateUserInputs, profileData \in ProfileInputs :
       LET existingUser == ExistingUser(userData)
           started == [Start("createUser") EXCEPT !.userData = userData,
                         !.profileData = profileData, !.n = calls + 1,
                         !.rivals = {proc[q].n : q \in
                            {r \in OtherTx(p) : /\ proc[r].op = "createUser"
                                                /\ proc[r].userData.username = userData.username}}]
       IN proc' = [proc EXCEPT ![p] =
            IF existingUser # {}
              THEN [started EXCEPT !.pc = "done", !.status = "error", !.err = "Conflict"]
              ELSE [started EXCEPT !.pc = "cu_create", !.tx = "open"]]
  /\ calls' = calls + 1
  /\ UNCHANGED <<db, seqs>>

\* userRepository.create(userData, { transaction })
CreateUserInsert(p) ==
  /\ proc[p].pc = "cu_create"
  /\ LET row == [id |-> nextUserId, username |-> proc[p].userData.username,
                 email |-> proc[p].userData.email]
     IN IF ~UserValid(row)
          THEN /\ proc' = [proc EXCEPT ![p] = Fail(p, "Validation")]
               /\ Users' = Rollback(Users, proc[p].txUsers)
               /\ UNCHANGED nextUserId
          ELSE /\ ~UserUniqueWait(p, row)
               /\ nextUserId' = nextUserId + 1
               /\ IF UserUniqueViolation(row)
                    THEN /\ proc' = [proc EXCEPT ![p] = [Fail(p, "Conflict") EXCEPT !.id = row.id]]
                         /\ Users' = Rollback(Users, proc[p].txUsers)
                    ELSE /\ proc' = [proc EXCEPT ![p].txUsers = {row}, ![p].id = row.id,
                                                 ![p].wrote = TRUE,
                                                 ![p].pc = IF proc[p].profileData.given
                                                             THEN "cu_profile" ELSE "cu_commit"]
                         /\ UNCHANGED Users
  /\ UNCHANGED <<Profiles, Posts, PostTags, nextProfileId, nextPostId, calls>>

\* Profile.create({ ...profileData, userId: user.id }, { transaction })
CreateUserProfile(p) ==
  /\ proc[p].pc = "cu_profile"
  /\ LET row == [id |-> nextProfileId, userId |-> proc[p].id,
                 firstName |-> proc[p].profileData.firstName,
                 lastName |-> proc[p].profileData.lastName]
     IN IF ~ProfileCreateValid(proc[p].profileData)
          THEN /\ proc' = [proc EXCEPT ![p] = Fail(p, "Validation")]
               /\ Users' = Rollback(Users, proc[p].txUsers)
               /\ Profiles' = Rollback(Profiles, proc[p].txProfiles)
               /\ UNCHANGED nextProfileId
          ELSE /\ nextProfileId' = nextProfileId + 1
               /\ proc' = [proc EXCEPT ![p].txProfiles = {row}, ![p].pc = "cu_commit"]
               /\ UNCHANGED <<Users, Profiles>>
  /\ UNCHANGED <<Posts, PostTags, nextUserId, nextPostId, calls>>

\* transaction.commit()
CreateUserCommit(p) ==
  /\ proc[p].pc = "cu_commit"
  /\ Users' = Commit(Users, proc[p].txUsers)
  /\ Profiles' = Commit(Profiles, proc[p].txProfiles)
  /\ proc' = [proc EXCEPT ![p].pc = "cu_read", ![p].tx = "committed",
                          ![p].txEnds = Append(@, "commit"),
                          ![p].txUsers = {}, ![p].txProfiles = {}]
  /\ UNCHANGED <<Posts, PostTags, seqs, calls>>

\* return userRepository.findUserById(user.id)
CreateUserRead(p) ==
  /\ proc[p].pc = "cu_read"
  /\ proc' = [proc EXCEPT ![p] = Ok(p, FullUser(proc[p].id))]
  /\ UNCHANGED <<db, seqs, calls>>

\* ------------------------------------------------------------------ UserService.updateUser

\* req.params.id of the /users/:id routes
UserIdInputs == {1, 3}

\* req.body.user of PUT /users/:id
UpdateUserInputs ==
  { NoUserData,
    [keys |-> {"username"}, username |-> "alice", email |-> ""],
    [keys |-> {"username"}, username |-> "al", email |-> ""] }

\* Fault: BaseRepository.update calls instance.update(data) without its options.
RepoUpdateDropsOptions(options) == "none"

\* BaseRepository.update hands its options to instance.update
RepoUpdateOptions(options) == options

\* instance.update(values): the attributes whose value differs from the loaded instance
ChangedKeys(data, instance) == {k \in data.keys : data[k] # instance[k]}

\* Fault: the UPDATE writes the row back as it was.
UpdatedNothing(row, data, changed) == row

\* the row an UPDATE of the changed attributes leaves
Updated(row, data, changed) == [k \in DOMAIN row |-> IF k \in changed THEN data[k] ELSE row[k]]

\* validation of the attributes a User.update saves
UserUpdateValid(data, changed) ==
  /\ "username" \in changed => UsernameValid(data.username)
  /\ "email" \in changed => IsEmail(data.email)

\* validation of the attributes a Profile.update saves
ProfileUpdateValid(data, changed) ==
  /\ "firstName" \in changed => NameValid(data.firstName)
  /\ "lastName" \in changed => NameValid(data.lastName)

\* where updateUser goes after the user part
AfterUserPart(p) == IF proc[p].profileData.given THEN "uu_profFind" ELSE "uu_commit"

\* userRepository.findById(id); throw, or open the transaction
UpdateUserCheck(p) ==
  /\ Free(p)
  /\ calls < MaxCalls
  /\ \E id \in UserIdInputs, userData \in UpdateUserInputs, profileData \in ProfileInputs :
       LET started == [Start("updateUser") EXCEPT !.id = id, !.userData = userData,
                                   !.profileData = profileData,
                                   !.preUsers = ById(Users, id),
                                   !.preProfiles = ByUserId(Profiles, id)]
       IN proc' = [proc EXCEPT ![p] =
            IF ById(Users, id) = {}
              THEN [started EXCEPT !.pc = "done", !.status = "error", !.err = "NotFound"]
              ELSE [started EXCEPT !.tx = "open",
                                   !.pc = IF userData.keys # {} THEN "uu_find"
                                          ELSE IF profileData.given THEN "uu_profFind"
                                          ELSE "uu_commit"]]
  /\ calls' = calls + 1
  /\ UNCHANGED <<db, seqs>>

\* BaseRepository.update: instance = findById(id), outside the transaction;
\* no instance: return null, and updateUser goes on
UpdateUserFind(p) ==
  /\ proc[p].pc = "uu_find"
  /\ proc' = [proc EXCEPT ![p].inst = ById(Users, proc[p].id),
                          ![p].pc = IF ById(Users, proc[p].id) = {} THEN AfterUserPart(p)
                                    ELSE "uu_write"]
  /\ UNCHANGED <<db, seqs, calls>>

\* BaseRepository.update: instance.update(data, options)
UpdateUserWrite(p) ==
  /\ proc[p].pc = "uu_write"
  /\ \E instance \in proc[p].inst :
       LET data == proc[p].userData
           changed == ChangedKeys(data, instance)
           current == ById(Users, instance.id)
           inTx == RepoUpdateOptions("transaction") = "transaction"
       IN IF ~UserUpdateValid(data, changed)
            THEN /\ proc' = [proc EXCEPT ![p] = Fail(p, "Validation")]
                 /\ Users' = Rollback(Users, proc[p].txUsers)
            ELSE IF changed = {} \/ current = {}
            THEN /\ proc' = [proc EXCEPT ![p].pc = AfterUserPart(p)]
                 /\ UNCHANGED Users
            ELSE \E c \in current :
                   LET row == Updated(c, data, changed)
                   IN /\ ~UserRowLocked(p, c.id)
                      /\ ~UserUniqueWait(p, row)
                      /\ IF UserUniqueViolation(row)
                           THEN /\ proc' = [proc EXCEPT ![p] = Fail(p, "Conflict")]
                                /\ Users' = Rollback(Users, proc[p].txUsers)
                           ELSE IF inTx
                           THEN /\ proc' = [proc EXCEPT ![p].txUsers = {row}, ![p].wrote = TRUE,
                                                        ![p].pc = AfterUserPart(p)]
                                /\ UNCHANGED Users
                           ELSE /\ proc' = [proc EXCEPT ![p].wrote = TRUE,
                                                        ![p].pc = AfterUserPart(p)]
                                /\ Users' = Commit(Users, {row})
  /\ UNCHANGED <<Profiles, Posts, PostTags, seqs, calls>>

\* Profile.findOne({ where: { userId: id }, transaction })
UpdateUserProfileFind(p) ==
  /\ proc[p].pc = "uu_profFind"
  /\ proc' = [proc EXCEPT ![p].prof = ByUserId(Profiles, proc[p].id), ![p].pc = "uu_profWrite"]
  /\ UNCHANGED <<db, seqs, calls>>

\* profile.update(profileData, { transaction }), when findOne found a profile
UpdateUserProfileUpdate(p) ==
  /\ proc[p].pc = "uu_profWrite"
  /\ \E profile \in proc[p].prof :
       LET data == proc[p].profileData
           changed == ChangedKeys(data, profile)
           current == ById(Profiles, profile.id)
       IN IF ~ProfileUpdateValid(data, changed)
            THEN /\ proc' = [proc EXCEPT ![p] = Fail(p, "Validation")]
                 /\ Users' = Rollback(Users, proc[p].txUsers)
                 /\ Profiles' = Rollback(Profiles, proc[p].txProfiles)
            ELSE IF changed = {} \/ current = {}
            THEN /\ proc' = [proc EXCEPT ![p].pc = "uu_commit"]
                 /\ UNCHANGED <<Users, Profiles>>
            ELSE \E c \in current :
                   /\ ~ProfileRowLocked(p, c.id)
                   /\ proc' = [proc EXCEPT ![p].txProfiles = {Updated(c, data, changed)},
                                           ![p].pc = "uu_commit"]
                   /\ UNCHANGED <<Users, Profiles>>
  /\ UNCHANGED <<Posts, PostTags, seqs, calls>>

\* Profile.create({ ...profileData, userId: id }, { transaction }), when findOne found none
UpdateUserProfileCreate(p) ==
  /\ proc[p].pc = "uu_profWrite"
  /\ proc[p].prof = {}
  /\ LET row == [id |-> nextProfileId, userId |-> proc[p].id,
                 firstName |-> proc[p].profileData.firstName,
                 lastName |-> proc[p].profileData.lastName]
     IN IF ~ProfileCreateValid(proc[p].profileData)
          THEN /\ proc' = [proc EXCEPT ![p] = Fail(p, "Validation")]
               /\ Users' = Rollback(Users, proc[p].txUsers)
               /\ Profiles' = Rollback(Profiles, proc[p].txProfiles)
               /\ UNCHANGED nextProfileId
          ELSE /\ ~UserRowChanging(p, row.userId)
               /\ ~ProfileUniqueWait(p, row)
               /\ nextProfileId' = nextProfileId + 1
               /\ IF ForeignKeyViolation(Users, row.userId)
                    THEN /\ proc' = [proc EXCEPT ![p] = Fail(p, "ForeignKey")]
                         /\ Users' = Rollback(Users, proc[p].txUsers)
                         /\ Profiles' = Rollback(Profiles, proc[p].txProfiles)
                    ELSE IF ProfileUniqueViolation(row)
                    THEN /\ proc' = [proc EXCEPT ![p] = Fail(p, "Conflict")]
                         /\ Users' = Rollback(Users, proc[p].txUsers)
                         /\ Profiles' = Rollback(Profiles, proc[p].txProfiles)
                    ELSE /\ proc' = [proc EXCEPT ![p].txProfiles = {row}, ![p].pc = "uu_commit"]
                         /\ UNCHANGED <<Users, Profiles>>
  /\ UNCHANGED <<Posts, PostTags, nextUserId, nextPostId, calls>>

\* transaction.commit()
UpdateUserCommit(p) ==
  /\ proc[p].pc = "uu_commit"
  /\ Users' = Commit(Users, proc[p].txUsers)
  /\ Profiles' = Commit(Profiles, proc[p].txProfiles)
  /\ proc' = [proc EXCEPT ![p].pc = "uu_read", ![p].tx = "committed",
                          ![p].txEnds = Append(@, "commit"),
                          ![p].txUsers = {}, ![p].txProfiles = {}]
  /\ UNCHANGED <<Posts, PostTags, seqs, calls>>

\* return userRepository.findUserById(id)
UpdateUserRead(p) ==
  /\ proc[p].pc = "uu_read"
  /\ proc' = [proc EXCEPT ![p] = Ok(p, FullUser(proc[p].id))]
  /\ UNCHANGED <<db, seqs, calls>>

\* ------------------------------------------------------------------ UserService.deleteUser

\* Fault: the foreign keys on Users are declared without ON DELETE CASCADE.
CascadeUserRowOnly(id) ==
  /\ Users' = Users \ ById(Users, id)
  /\ UNCHANGED <<Profiles, Posts, PostTags>>

\* ON DELETE CASCADE from Users: its profile, its posts and the PostTags rows of those posts
CascadeUser(id) ==
  LET gone == {r.id : r \in ByUserId(Posts, id)}
  IN /\ Users' = Users \ ById(Users, id)
     /\ Profiles' = Profiles \ ByUserId(Profiles, id)
     /\ Posts' = Posts \ ByUserId(Posts, id)
     /\ PostTags' = DeletePairs(PostTags, {x \in DOMAIN PostTags : x[1] \in gone})

\* BaseRepository.delete: instance = findById(id); no instance: false, and deleteUser throws
DeleteUserFind(p) ==
  /\ Free(p)
  /\ calls < MaxCalls
  /\ \E id \in UserIdInputs :
       LET started == [Start("deleteUser") EXCEPT !.id = id]
       IN proc' = [proc EXCEPT ![p] =
            IF ById(Users, id) = {}
              THEN [started EXCEPT !.pc = "done", !.status = "error", !.err = "NotFound"]
              ELSE [started EXCEPT !.pc = "du_destroy"]]
  /\ calls' = calls + 1
  /\ UNCHANGED <<db, seqs>>

\* BaseRepository.delete: instance.destroy(options); return true
DeleteUserDestroy(p) ==
  /\ proc[p].pc = "du_destroy"
  /\ ~UserRowLocked(p, proc[p].id)
  /\ \A r \in ByUserId(Profiles, proc[p].id) : ~ProfileRowLocked(p, r.id)
  /\ CascadeUser(proc[p].id)
  /\ proc' = [proc EXCEPT ![p] =
       [Ok(p, NoResult) EXCEPT !.cascaded = {r.id : r \in ByUserId(Posts, proc[p].id)},
                               !.wrote = ById(Users, proc[p].id) # {}]]
  /\ UNCHANGED <<seqs, calls>>

\* ------------------------------------------------------------------ UserService.getUserById

\* userRepository.findUserById(id), one query outside any transaction; throw when there
\* is none.  rivals: the createUser calls whose uncommitted user has this id.
GetUserById(p) ==
  /\ Free(p)
  /\ calls < MaxCalls
  /\ \E id \in UserIdInputs :
       LET started == [Start("getUserById") EXCEPT !.id = id,
                         !.rivals = {proc[q].n : q \in
                            {r \in OtherTx(p) : ById(proc[r].txUsers, id) # {}}}]
       IN proc' = [proc EXCEPT ![p] =
            IF ById(Users, id) = {}
              THEN [started EXCEPT !.pc = "done", !.status = "error", !.err = "NotFound"]
              ELSE [started EXCEPT !.pc = "done", !.status = "ok", !.result = FullUser(id)]]
  /\ calls' = calls + 1
  /\ UNCHANGED <<db, seqs>>

\* ------------------------------------------------------------------ UserService.getUserPosts

\* userRepository.findById(userId); throw when there is none
GetUserPostsFind(p) ==
  /\ Free(p)
  /\ calls < MaxCalls
  /\ \E id \in UserIdInputs :
       LET started == [Start("getUserPosts") EXCEPT !.id = id,
                         !.afterDelete = \E q \in Procs :
                            /\ proc[q].op = "deleteUser" /\ proc[q].id = id
                            /\ proc[q].pc = "done" /\ proc[q].status = "ok"]
       IN proc' = [proc EXCEPT ![p] =
            IF ById(Users, id) = {}
              THEN [started EXCEPT !.pc = "done", !.status = "error", !.err = "NotFound"]
              ELSE [started EXCEPT !.pc = "gp_list"]]
  /\ calls' = calls + 1
  /\ UNCHANGED <<db, seqs>>

\* BaseRepository.findAll passes its options on and adds no order: a SELECT without
\* ORDER BY returns the rows in an order the database chooses.
Orderings(ids) ==
  {s \in [1..Cardinality(ids) -> ids] : \A i, j \in 1..Cardinality(ids) : i # j => s[i] # s[j]}

\* postRepository.findAll({ where: { userId }, attributes }), with no order
GetUserPostsList(p) ==
  /\ proc[p].pc = "gp_list"
  /\ \E order \in Orderings({r.id : r \in ByUserId(Posts, proc[p].id)}) :
       proc' = [proc EXCEPT ![p] =
         Ok(p, [NoResult EXCEPT !.posts = ByUserId(Posts, proc[p].id), !.data = order])]
  /\ UNCHANGED <<db, seqs, calls>>

\* ------------------------------------------------------------------ PostService.createPost

\* req.body of POST /posts, without userId
CreatePostInputs ==
  { [title |-> "Hello world", content |-> "Long enough content", isPublished |-> TRUE],
    [title |-> "Draft post", content |-> "Long enough content", isPublished |-> FALSE],
    [title |-> "Test", content |-> "Long enough content", isPublished |-> FALSE] }

\* Model.create validation of a Post
PostValid(row) == TitleValid(row.title) /\ ContentValid(row.content)

\* userRepository.findById(postData.userId); throw when there is none
CreatePostCheck(p) ==
  /\ Free(p)
  /\ calls < MaxCalls
  /\ \E userId \in UserIdInputs, postData \in CreatePostInputs :
       LET started == [Start("createPost") EXCEPT !.id = userId, !.postData = postData]
       IN proc' = [proc EXCEPT ![p] =
            IF ById(Users, userId) = {}
              THEN [started EXCEPT !.pc = "done", !.status = "error", !.err = "NotFound"]
              ELSE [started EXCEPT !.pc = "cp_create"]]
  /\ calls' = calls + 1
  /\ UNCHANGED <<db, seqs>>

\* postRepository.create(postData)
CreatePostInsert(p) ==
  /\ proc[p].pc = "cp_create"
  /\ LET postData == proc[p].postData
         row == [id |-> nextPostId, userId |-> proc[p].id, title |-> postData.title,
                 content |-> postData.content, isPublished |-> postData.isPublished]
     IN IF ~PostValid(row)
          THEN /\ proc' = [proc EXCEPT ![p] = Fail(p, "Validation")]
               /\ UNCHANGED <<Posts, nextPostId>>
          ELSE /\ ~UserRowChanging(p, row.userId)
               /\ nextPostId' = nextPostId + 1
               /\ IF ForeignKeyViolation(Users, row.userId)
                    THEN /\ proc' = [proc EXCEPT ![p] = Fail(p, "ForeignKey")]
                         /\ UNCHANGED Posts
                    ELSE /\ proc' = [proc EXCEPT ![p] = Ok(p, [NoResult EXCEPT !.posts = {row}])]
                         /\ Posts' = Posts \cup {row}
  /\ UNCHANGED <<Users, Profiles, PostTags, nextUserId, nextProfileId, calls>>

\* req.params.id of the /posts/:id routes
PostIdInputs == {1, 4}

\* ------------------------------------------------------------------ PostService.updatePost

\* req.body of PUT /posts/:id: a new title with the post unpublished, a title of four
\* characters
UpdatePostInputs ==
  { [keys |-> {"title", "isPublished"}, title |-> "Edited title", content |-> "",
     isPublished |-> FALSE],
    [keys |-> {"title"}, title |-> "Test", content |-> "", isPublished |-> FALSE] }

\* validation of the attributes a Post.update saves
PostUpdateValid(data, changed) ==
  /\ "title" \in changed => TitleValid(data.title)
  /\ "content" \in changed => ContentValid(data.content)

\* postRepository.findById(id); throw when there is none
UpdatePostCheck(p) ==
  /\ Free(p)
  /\ calls < MaxCalls
  /\ \E id \in PostIdInputs, postData \in UpdatePostInputs :
       LET started == [Start("updatePost") EXCEPT !.id = id, !.postData = postData]
       IN proc' = [proc EXCEPT ![p] =
            IF ById(Posts, id) = {}
              THEN [started EXCEPT !.pc = "done", !.status = "error", !.err = "NotFound"]
              ELSE [started EXCEPT !.pc = "up_find"]]
  /\ calls' = calls + 1
  /\ UNCHANGED <<db, seqs>>

\* BaseRepository.update: instance = findById(id); no instance: return null, which
\* updatePost returns
UpdatePostFind(p) ==
  /\ proc[p].pc = "up_find"
  /\ proc' = [proc EXCEPT ![p] =
       IF ById(Posts, proc[p].id) = {} THEN Ok(p, NoResult)
       ELSE [proc[p] EXCEPT !.inst = ById(Posts, proc[p].id), !.pc = "up_write"]]
  /\ UNCHANGED <<db, seqs, calls>>

\* BaseRepository.update: instance.update(data, options), no transaction: the UPDATE
\* changes the row if it is still there; the instance with the new values is returned
UpdatePostWrite(p) ==
  /\ proc[p].pc = "up_write"
  /\ \E instance \in proc[p].inst :
       LET data == proc[p].postData
           changed == ChangedKeys(data, instance)
           current == ById(Posts, instance.id)
       IN IF ~PostUpdateValid(data, changed)
            THEN /\ proc' = [proc EXCEPT ![p] = Fail(p, "Validation")]
                 /\ UNCHANGED Posts
            ELSE /\ proc' = [proc EXCEPT ![p] =
                      [Ok(p, [NoResult EXCEPT !.posts = {Updated(instance, data, changed)}])
                         EXCEPT !.wrote = changed # {} /\ current # {}]]
                 /\ Posts' = IF changed = {} THEN Posts
                             ELSE Commit(Posts, {Updated(c, data, changed) : c \in current})
  /\ UNCHANGED <<Users, Profiles, PostTags, seqs, calls>>

\* ------------------------------------------------------------------ PostService.deletePost

\* BaseRepository.delete: instance = findById(id); no instance: false, and deletePost throws
DeletePostFind(p) ==
  /\ Free(p)
  /\ calls < MaxCalls
  /\ \E id \in PostIdInputs :
       LET started == [Start("deletePost") EXCEPT !.id = id]
       IN proc' = [proc EXCEPT ![p] =
            IF ById(Posts, id) = {}
              THEN [started EXCEPT !.pc = "done", !.status = "error", !.err = "NotFound"]
              ELSE [started EXCEPT !.pc = "dp_destroy"]]
  /\ calls' = calls + 1
  /\ UNCHANGED <<db, seqs>>

\* Fault: the foreign key PostTags.postId is declared without ON DELETE CASCADE.
CascadePostRowOnly(id) ==
  /\ Posts' = Posts \ ById(Posts, id)
  /\ UNCHANGED PostTags

\* ON DELETE CASCADE from Posts: the PostTags rows of the post go with it
CascadePost(id) ==
  /\ Posts' = Posts \ ById(Posts, id)
  /\ PostTags' = DeletePairs(PostTags, {x \in DOMAIN PostTags : x[1] = id})

\* BaseRepository.delete: instance.destroy(options); return true.
DeletePostDestroy(p) ==
  /\ proc[p].pc = "dp_destroy"
  /\ CascadePost(proc[p].id)
  /\ proc' = [proc EXCEPT ![p] = [Ok(p, NoResult) EXCEPT !.wrote = ById(Posts, proc[p].id) # {}]]
  /\ UNCHANGED <<Users, Profiles, seqs, calls>>

\* ------------------------------------------------------------------ PostService.addTagsToPost

\* req.body.tagIds of POST /posts/:id/tags
TagIdInputs == { <<>>, <<3>>, <<1, 3>>, <<1, 1>>, <<3, 4>> }

Range(s) == {s[i] : i \in 1..Len(s)}

\* Tag.findAll({ where: { id: tagIds } })
FindTags(tagIds) == {t \in Tags : t \in Range(tagIds)}

\* Fault: the check passes as soon as one tag exists.
TagsResolveAny(tagIds) == FindTags(tagIds) # {}

\* the check of addTagsToPost that all tags exist
TagsResolve(tagIds) == Cardinality(FindTags(tagIds)) = Len(tagIds)

\* Fault: post.addTags in place of post.setTags: no row is obsolete.
ObsoleteNone(currentRows, tagIds) == {}

\* post.setTags: the current rows whose tag is not among the new ones
Obsolete(currentRows, tagIds) == currentRows \ Range(tagIds)

\* Fault: every new tag is inserted, with or without a current row.
UnassociatedAll(currentRows, tagIds) == Range(tagIds)

\* post.setTags: the new tags that have no current row
Unassociated(currentRows, tagIds) == Range(tagIds) \ currentRows

\* Fault: PostTags without its unique_post_tag constraint.
NoPairUniqueIndex(pt, pairs) == FALSE

\* unique_post_tag: a row of the pair exists
PairUniqueViolation(pt, pairs) == \E x \in pairs : RowCount(pt, x) > 0

\* findPostById: the post and its tags
FullPost(id) == [NoResult EXCEPT !.posts = ById(Posts, id), !.tags = TagsOfPost(PostTags, id)]

\* postRepository.findById(postId), throw when there is none; Tag.findAll, throw when
\* tags.length differs from tagIds.length (Tags never changes, so the two reads are one step)
AddTagsCheck(p) ==
  /\ Free(p)
  /\ calls < MaxCalls
  /\ \E id \in PostIdInputs, tagIds \in TagIdInputs :
       LET started == [Start("addTagsToPost") EXCEPT !.id = id, !.n = calls + 1, !.tagIds = tagIds,
                                   !.preTags = TagsOfPost(PostTags, id)]
       IN proc' = [proc EXCEPT ![p] =
            IF ById(Posts, id) = {}
              THEN [started EXCEPT !.pc = "done", !.status = "error", !.err = "NotFound"]
            ELSE IF ~TagsResolve(tagIds)
              THEN [started EXCEPT !.pc = "done", !.status = "error", !.err = "TagsNotFound"]
            ELSE [started EXCEPT !.pc = "at_find"]]
  /\ calls' = calls + 1
  /\ UNCHANGED <<db, seqs>>

\* PostRepository.addTagsToPost: post = findById(postId); no post: return null
AddTagsFind(p) ==
  /\ proc[p].pc = "at_find"
  /\ proc' = [proc EXCEPT ![p] =
       IF ById(Posts, proc[p].id) = {} THEN Ok(p, NoResult)
       ELSE [proc[p] EXCEPT !.pc = "at_read"]]
  /\ UNCHANGED <<db, seqs, calls>>

\* post.setTags(tagIds): read the current PostTags rows of the post; the rows of tags not
\* in tagIds are obsolete, the tags of tagIds without a row are unassociated
AddTagsRead(p) ==
  /\ proc[p].pc = "at_read"
  /\ LET currentRows == TagsOfPost(PostTags, proc[p].id)
         obsolete == Obsolete(currentRows, proc[p].tagIds)
         unassoc == Unassociated(currentRows, proc[p].tagIds)
         pending == (IF obsolete # {} THEN {"destroy"} ELSE {})
                      \cup (IF unassoc # {} THEN {"insert"} ELSE {})
     IN proc' = [proc EXCEPT ![p].obsolete = obsolete, ![p].unassoc = unassoc,
                             ![p].pending = pending,
                             ![p].pc = IF pending = {} THEN "at_result" ELSE "at_set"]
  /\ UNCHANGED <<db, seqs, calls>>

\* where setTags is once a statement of its Promise.all has ended
AfterSetStep(p, step, failed) ==
  LET rest == proc[p].pending \ {step}
      status == IF failed THEN "error" ELSE proc[p].status
  IN [proc[p] EXCEPT !.pending = rest,
                     !.status = status,
                     !.err = IF failed THEN "Conflict" ELSE @,
                     !.pc = IF rest # {} THEN "at_set"
                            ELSE IF status = "error" THEN "done" ELSE "at_result"]

\* post.setTags: through.destroy of the obsolete rows
AddTagsDestroy(p) ==
  /\ proc[p].pc = "at_set"
  /\ "destroy" \in proc[p].pending
  /\ PostTags' = DeletePairs(PostTags, {<<proc[p].id, t>> : t \in proc[p].obsolete})
  /\ proc' = [proc EXCEPT ![p] =
       [AfterSetStep(p, "destroy", FALSE) EXCEPT
          !.removed = proc[p].obsolete \cap TagsOfPost(PostTags, proc[p].id)]]
  /\ UNCHANGED <<Users, Profiles, Posts, seqs, calls>>

\* post.setTags: through.bulkCreate of the unassociated rows, one INSERT
AddTagsInsert(p) ==
  /\ proc[p].pc = "at_set"
  /\ "insert" \in proc[p].pending
  /\ LET pairs == {<<proc[p].id, t>> : t \in proc[p].unassoc}
         dangling == \/ ForeignKeyViolation(Posts, proc[p].id)
                     \/ \E t \in proc[p].unassoc : ForeignKeyViolation({[id |-> x] : x \in Tags}, t)
         failed == dangling \/ PairUniqueViolation(PostTags, pairs)
     IN /\ PostTags' = IF failed THEN PostTags ELSE InsertPairs(PostTags, pairs)
        /\ proc' = [proc EXCEPT ![p] =
             [AfterSetStep(p, "insert", failed) EXCEPT !.err = IF dangling THEN "ForeignKey" ELSE @]]
  /\ UNCHANGED <<Users, Profiles, Posts, seqs, calls>>

\* return this.findPostById(postId)
AddTagsResult(p) ==
  /\ proc[p].pc = "at_result"
  /\ proc' = [proc EXCEPT ![p] = Ok(p, FullPost(proc[p].id))]
  /\ UNCHANGED <<db, seqs, calls>>

\* ------------------------------------------------------------------ PostService.getPublishedPosts

\* page = 1, limit = 10: the default parameters of getPublishedPosts,
\* findPublishedPosts and paginate
DefaultPage == 1
DefaultLimit == 10

\* Fault: every argument left out is taken as 1, the limit too.
DefaultParamOne(arg, default) == IF arg = <<>> THEN 1 ELSE arg[1]

\* An optional argument is <<>> when the caller leaves it out and <<v>> otherwise.
DefaultParam(arg, default) == IF arg = <<>> THEN default ELSE arg[1]

\* req.query.page and req.query.limit of GET /posts/published
PageInputs == { <<>>, <<1>>, <<2>>, <<3>> }
LimitInputs == { <<>>, <<2>>, <<10>> }

\* const offset = (page - 1) * limit
Offset(page, limit) == (page - 1) * limit

\* Fault: the page count is rounded down.
TotalPagesFloor(count, limit) == count \div limit

\* Math.ceil(result.count / limit), for limit >= 1
TotalPages(count, limit) == (count + limit - 1) \div limit

\* Fault: the where clause is left out.
PublishedOrNot(posts) == posts

\* where: { isPublished: true }
PublishedOnly(posts) == {x \in posts : x.isPublished}

\* where: { isPublished: true }, include: [author]: the rows of the LEFT JOIN of the
\* published Posts with Users, as <<post id, user id>> pairs (user id 0: no author)
JoinAuthor(posts) ==
  LET published == PublishedOnly(posts)
  IN {<<y[1].id, y[2].id>> : y \in {z \in published \X Users : z[2].id = z[1].userId}}
       \cup {<<r.id, 0>> : r \in {x \in published : ById(Users, x.userId) = {}}}

\* order: [['createdAt', 'DESC']]: the newest first (ids grow with the time of creation)
RECURSIVE NewestFirst(_)
NewestFirst(ids) ==
  IF ids = {} THEN <<>>
  ELSE LET newest == CHOOSE x \in ids : \A y \in ids : y <= x
       IN <<newest>> \o NewestFirst(ids \ {newest})

\* findAndCountAll({ ...options, limit, offset, distinct: true }):
\* count is COUNT(DISTINCT Post.id) over the joined rows, rows are the joined rows in
\* order from offset on, limit of them at most
FindAndCountAll(posts, limit, offset) ==
  LET joined == JoinAuthor(posts)
      ordered == NewestFirst({x[1] : x \in joined})
      last == IF offset + limit < Len(ordered) THEN offset + limit ELSE Len(ordered)
  IN [count |-> Cardinality({x[1] : x \in joined}),
      rows |-> IF offset + 1 > last THEN <<>> ELSE SubSeq(ordered, offset + 1, last)]

\* BaseRepository.paginate(page, limit, options)
Paginate(posts, page, limit) ==
  LET found == FindAndCountAll(posts, limit, Offset(page, limit))
  IN [NoResult EXCEPT !.data = found.rows, !.total = found.count, !.page = page,
                      !.limit = limit, !.totalPages = TotalPages(found.count, limit)]

\* postRepository.findPublishedPosts(page, limit): the default parameters stand in for
\* the arguments left out
GetPublishedPosts(p) ==
  /\ Free(p)
  /\ calls < MaxCalls
  /\ \E page \in PageInputs, limit \in LimitInputs :
       proc' = [proc EXCEPT ![p] =
         [Start("getPublishedPosts") EXCEPT
            !.pageArg = page, !.limitArg = limit, !.pc = "done", !.status = "ok",
            !.result = Paginate(Posts, DefaultParam(page, DefaultPage),
                                DefaultParam(limit, DefaultLimit))]]
  /\ calls' = calls + 1
  /\ UNCHANGED <<db, seqs>>

Step(p) ==
  \/ CreateUserCheck(p)
  \/ CreateUserInsert(p)
  \/ CreateUserProfile(p)
  \/ CreateUserCommit(p)
  \/ CreateUserRead(p)
  \/ UpdateUserCheck(p)
  \/ UpdateUserFind(p)
  \/ UpdateUserWrite(p)
  \/ UpdateUserProfileFind(p)
  \/ UpdateUserProfileUpdate(p)
  \/ UpdateUserProfileCreate(p)
  \/ UpdateUserCommit(p)
  \/ UpdateUserRead(p)
  \/ DeleteUserFind(p)
  \/ DeleteUserDestroy(p)
  \/ GetUserById(p)
  \/ GetUserPostsFind(p)
  \/ GetUserPostsList(p)
  \/ CreatePostCheck(p)
  \/ CreatePostInsert(p)
  \/ UpdatePostCheck(p)
  \/ UpdatePostFind(p)
  \/ UpdatePostWrite(p)
  \/ DeletePostFind(p)
  \/ DeletePostDestroy(p)
  \/ AddTagsCheck(p)
  \/ AddTagsFind(p)
  \/ AddTagsRead(p)
  \/ AddTagsDestroy(p)
  \/ AddTagsInsert(p)
  \/ AddTagsResult(p)
  \/ GetPublishedPosts(p)

\* Requests are served concurrently: any request may take its next step.
Next == \E p \in Procs : Step(p)

Spec == Init /\ [][Next]_vars

\* No other request is between its first and its last statement.
Quiet(p) == \A q \in Procs \ {p} : proc[q].pc \in {"idle", "done"}

\* Requests are served one after the other.
SerialNext == \E p \in Procs : Quiet(p) /\ Step(p)

SerialSpec == Init /\ [][SerialNext]_vars

\* return await userRepository.findUserById(id), inside the try block, fails for a
\* reason of the storage (connection lost, timeout): the catch block calls
\* transaction.rollback() on the committed transaction, which throws "Transaction
\* cannot be rolled back because it has been finished with state: commit".
ReReadFails(p) ==
  /\ proc[p].pc \in {"cu_read", "uu_read"}
  /\ proc' = [proc EXCEPT ![p].pc = "done", ![p].status = "error",
                          ![p].err = "TransactionFinished", ![p].cause = "Storage",
                          ![p].txEnds = Append(@, "rollback")]
  /\ UNCHANGED <<db, seqs, calls>>

StorageFailNext == Next \/ \E p \in Procs : ReReadFails(p)

\* Concurrent requests, with a storage whose reads after a commit may fail.
StorageFailSpec == Init /\ [][StorageFailNext]_vars

\* The state after the seeder and one createUser without profile data: user 3 has no
\* Profiles row, and the Users sequence has moved on.
AfterSignupInit ==
  /\ Users = SeedUsers \cup {[id |-> 3, username |-> "alice", email |-> "alice@example.com"]}
  /\ Profiles = SeedProfiles
  /\ Posts = SeedPosts
  /\ PostTags = [x \in SeedPostTags |-> 1]
  /\ nextUserId = 4
  /\ nextProfileId = 3
  /\ nextPostId = 4
  /\ proc = [p \in Procs |-> Idle]
  /\ calls = 0

\* Concurrent requests on a database that holds a user without a profile.
AfterSignupSpec == AfterSignupInit /\ [][Next]_vars

\* The published post that the k-th createPost after the seeder leaves.
CreatedPost(k) ==
  [id |-> 3 + k, userId |-> 1 + (k % 2), title |-> "Hello world",
   content |-> "Long enough content", isPublished |-> TRUE]

\* The state after the seeder, k createPost calls and, or not, the deletePost of the two
\* published posts of the seeder.
PaginateInit ==
  \E k \in 0..MaxCreated, gone \in {{}, {1, 2}} :
    /\ Users = SeedUsers
    /\ Profiles = SeedProfiles
    /\ Posts = {r \in SeedPosts : r.id \notin gone} \cup {CreatedPost(i) : i \in 1..k}
    /\ PostTags = [x \in {y \in SeedPostTags : y[1] \notin gone} |-> 1]
    /\ nextUserId = 3
    /\ nextProfileId = 3
    /\ nextPostId = 4 + k
    /\ proc = [p \in Procs |-> Idle]
    /\ calls = 0

PaginateNext == \E p \in Procs : GetPublishedPosts(p)

\* Pages of published posts read from a database with up to MaxCreated + 2 of them.
PaginateSpec == PaginateInit /\ [][PaginateNext]_vars

\* ------------------------------------------------------------------ properties

Done(p, op) == proc[p].op = op /\ proc[p].pc = "done"
Succeeded(p, op) == Done(p, op) /\ proc[p].status = "ok"
Failed(p, op) == Done(p, op) /\ proc[p].status = "error"

\* C1: in every reachable state, whatever createUser, updateUser and deleteUser calls ran
\* and however they interleaved, no two distinct Users rows have the same username and
\* no two have the same email.
C1_UniqueHandleAndEmail ==
  \A a, b \in Users : a # b => a.username # b.username /\ a.email # b.email

\* C1 witness: a createUser or updateUser passed every check of the service, was
\* refused by the unique index and rolled back, next to a user created by a call.
C1_Witness ==
  /\ \E p \in Procs : /\ proc[p].op \in {"createUser", "updateUser"}
                      /\ Failed(p, proc[p].op)
                      /\ proc[p].err = "Conflict" /\ proc[p].tx = "rolledback"
  /\ \E u \in Users : u.id >= 3

\* the input of a createUser passes validation
CreateInputValid(p) ==
  /\ UserValid(proc[p].userData)
  /\ proc[p].profileData.given => ProfileCreateValid(proc[p].profileData)

\* the createUser of p has left no Users row and no Profiles row
NoRowsOf(p) == ById(Users, proc[p].id) = {} /\ ByUserId(Profiles, proc[p].id) = {}

\* C2: of two createUser calls with the same username that both passed the pre-check,
\* one of them while the other was between its pre-check and the end of its
\* transaction, at most one succeeds and a failed one leaves no Users row and no
\* Profiles row; when the input of both is valid, exactly one succeeds and the other
\* fails with the conflict error.
C2_ConcurrentCreateSameHandle ==
  \A p, q \in Procs :
    (/\ p # q /\ Done(p, "createUser") /\ Done(q, "createUser")
     /\ proc[p].tx # "none" /\ proc[q].tx # "none"
     /\ proc[p].n \in proc[q].rivals)
    => /\ ~(proc[p].status = "ok" /\ proc[q].status = "ok")
       /\ proc[p].status = "error" => NoRowsOf(p)
       /\ proc[q].status = "error" => NoRowsOf(q)
       /\ (CreateInputValid(p) /\ CreateInputValid(q))
            => \/ proc[p].status = "ok" /\ proc[q].status = "error" /\ proc[q].err = "Conflict"
               \/ proc[q].status = "ok" /\ proc[p].status = "error" /\ proc[p].err = "Conflict"

\* C2 witness: two valid createUser calls with the same username ran concurrently, one
\* succeeded and the other was refused by the unique index after its pre-check.
C2_Witness ==
  \E p, q \in Procs :
    /\ p # q /\ Succeeded(p, "createUser") /\ Failed(q, "createUser")
    /\ proc[p].n \in proc[q].rivals \/ proc[q].n \in proc[p].rivals
    /\ CreateInputValid(p) /\ CreateInputValid(q)
    /\ proc[q].err = "Conflict" /\ proc[q].tx = "rolledback"

\* C3: a createUser that fails after its user was created in the transaction leaves no
\* Users row and no Profiles row of that user; and at no time do the tables hold the
\* user of a createUser with profile data without its profile, or the profile without
\* the user.
C3_CreateUserAtomic ==
  \A p \in Procs :
    /\ (Failed(p, "createUser") /\ proc[p].wrote) => NoRowsOf(p)
    /\ (proc[p].op = "createUser" /\ proc[p].profileData.given /\ proc[p].id # 0)
         => ((ById(Users, proc[p].id) # {}) <=> (ByUserId(Profiles, proc[p].id) # {}))

\* C3 witness: a createUser inserted its user in the transaction and then failed the
\* validation of its profile.
C3_Witness ==
  \E p \in Procs : /\ Failed(p, "createUser") /\ proc[p].wrote
                   /\ proc[p].err = "Validation" /\ proc[p].tx = "rolledback"

\* C4: served one request after the other, when an updateUser fails after its user
\* update was applied in the transaction, the Users row and the profile of the user are
\* as they were when the call began.
C4_RolledBack(p) ==
  (Failed(p, "updateUser") /\ proc[p].wrote)
  => /\ ById(Users, proc[p].id) = proc[p].preUsers
     /\ ByUserId(Profiles, proc[p].id) = proc[p].preProfiles

C4_UpdateUserRollsBack == [][\A p \in Procs : proc'[p] # proc[p] => C4_RolledBack(p)']_vars

\* C4 witness: an updateUser changed the username in the transaction and then failed
\* the validation of the profile data.
C4_Witness ==
  \E p \in Procs : /\ Failed(p, "updateUser") /\ proc[p].wrote
                   /\ proc[p].err = "Validation" /\ proc[p].tx = "rolledback"

\* the row carries every attribute of data
Carries(row, data) == \A k \in data.keys : row[k] = data[k]

\* C5: served one request after the other, when an updateUser with profile data
\* succeeds the user has exactly one profile and it carries the data; a user that had a
\* profile keeps that Profiles row (same id), a user that had none has a new row.
C5_Upserted(p) ==
  (Succeeded(p, "updateUser") /\ proc[p].profileData.given)
  => LET now == ByUserId(Profiles, proc[p].id)
     IN /\ Cardinality(now) = 1
        /\ \A r \in now : Carries(r, proc[p].profileData)
        /\ \A old \in proc[p].preProfiles : \E r \in now : r.id = old.id

C5_ProfileUpsert == [][\A p \in Procs : proc'[p] # proc[p] => C5_Upserted(p)']_vars

\* C5 witness: a successful updateUser with profile data on a user that had no profile.
C5_Witness ==
  \E p \in Procs : /\ Succeeded(p, "updateUser") /\ proc[p].profileData.given
                   /\ proc[p].preProfiles = {}
                   /\ ByUserId(Profiles, proc[p].id) # {}

\* C6: once a deleteUser(id) has succeeded, no Users, Profiles or Posts row of the user
\* is in the tables, no PostTags row references a post the delete removed or a post
\* that is not in Posts, and a getUserPosts(id) that begins after it ends in the
\* not-found error.
C6_DeleteUserCascades ==
  /\ \A p \in Procs :
       Succeeded(p, "deleteUser")
       => /\ ById(Users, proc[p].id) = {}
          /\ ByUserId(Profiles, proc[p].id) = {}
          /\ ByUserId(Posts, proc[p].id) = {}
          /\ \A x \in DOMAIN PostTags : x[1] \notin proc[p].cascaded /\ ById(Posts, x[1]) # {}
  /\ \A p \in Procs :
       (proc[p].op = "getUserPosts" /\ proc[p].afterDelete)
       => Failed(p, "getUserPosts") /\ proc[p].err = "NotFound"

\* C6 witness: a deleteUser removed a user with posts, and a getUserPosts of that user
\* ran after it.
C6_Witness ==
  \E p, q \in Procs :
    /\ Succeeded(p, "deleteUser") /\ proc[p].cascaded # {}
    /\ Done(q, "getUserPosts") /\ proc[q].afterDelete /\ proc[q].id = proc[p].id

\* no <<postId, tagId>> pair has two PostTags rows
NoDuplicatePairs == \A x \in DOMAIN PostTags : PostTags[x] <= 1

\* C7: served one request after the other, when an addTagsToPost succeeds the tags of
\* the post are the set of tagIds; it removed the rows of the tags not in
\* tagIds, inserted rows for the tags that had none, touched no row of a tag that had
\* one, and no pair has two rows.
C7_TagsSet(p) ==
  (Succeeded(p, "addTagsToPost") /\ proc[p].result.posts # {})
  => /\ TagsOfPost(PostTags, proc[p].id) = Range(proc[p].tagIds)
     /\ proc[p].obsolete = proc[p].preTags \ Range(proc[p].tagIds)
     /\ proc[p].unassoc = Range(proc[p].tagIds) \ proc[p].preTags
     /\ NoDuplicatePairs

C7_SetTagsExact == [][\A p \in Procs : proc'[p] # proc[p] => C7_TagsSet(p)']_vars

\* C7 witness: a successful addTagsToPost that removed a tag, added a tag and kept one.
C7_Witness ==
  \E p \in Procs :
    /\ Succeeded(p, "addTagsToPost") /\ proc[p].result.posts # {}
    /\ proc[p].obsolete # {} /\ proc[p].unassoc # {}
    /\ proc[p].preTags \cap Range(proc[p].tagIds) # {}

\* q is the addTagsToPost that directly follows the successful addTagsToPost p, with
\* the same post and the same tagIds
Repeats(q, p) ==
  /\ Succeeded(p, "addTagsToPost") /\ proc[p].result.posts # {}
  /\ Done(q, "addTagsToPost")
  /\ proc[q].n = proc[p].n + 1
  /\ proc[q].id = proc[p].id /\ proc[q].tagIds = proc[p].tagIds

\* C8: served one request after the other, an addTagsToPost directly followed by the
\* same addTagsToPost: the second succeeds, the tags of the post are those the first
\* left, and no pair has two rows.
C8_SetTagsIdempotent ==
  \A p, q \in Procs :
    Repeats(q, p)
    => /\ proc[q].status = "ok"
       /\ proc[q].result.tags = proc[p].result.tags
       /\ TagsOfPost(PostTags, proc[q].id) = proc[p].result.tags
       /\ NoDuplicatePairs

\* C8 witness: the same addTagsToPost ran twice in a row and the first changed the tags.
C8_Witness ==
  \E p, q \in Procs :
    /\ Repeats(q, p)
    /\ proc[p].preTags # Range(proc[p].tagIds)
    /\ proc[p].tagIds # <<>>

\* C9: an addTagsToPost whose tagIds hold an id of no Tag fails in the step that begins
\* it, and that step changes no row of any table.
C9_UnknownTagRejected ==
  [][\A p \in Procs :
       (/\ Free(p) /\ proc'[p] # proc[p] /\ proc'[p].op = "addTagsToPost"
        /\ ~(Range(proc'[p].tagIds) \subseteq Tags))
       => /\ proc'[p].pc = "done" /\ proc'[p].status = "error"
          /\ db' = db]_vars

\* C9 witness: an addTagsToPost on an existing post with one known and one unknown tag
\* id was refused.
C9_Witness ==
  \E p \in Procs :
    /\ Failed(p, "addTagsToPost") /\ proc[p].err = "TagsNotFound"
    /\ Range(proc[p].tagIds) \cap Tags # {}
    /\ ~(Range(proc[p].tagIds) \subseteq Tags)

\* C10: whenever an addTagsToPost has failed and its post is still there, every tag
\* the failed call removed is back in the tags of the post, unless another
\* addTagsToPost on the post, not failed, sets tags without it.
C10_NoPartialSetTags ==
  \A p \in Procs :
    (Failed(p, "addTagsToPost") /\ ById(Posts, proc[p].id) # {})
    => \A t \in proc[p].removed :
         \/ t \in TagsOfPost(PostTags, proc[p].id)
         \/ \E q \in Procs \ {p} :
              /\ proc[q].op = "addTagsToPost" /\ proc[q].id = proc[p].id
              /\ proc[q].status # "error"
              /\ t \notin Range(proc[q].tagIds)

\* C11: in every reachable state, whatever addTagsToPost calls ran and however they
\* interleaved on a post, the PostTags table holds at most one row per
\* <<postId, tagId>> pair.
C11_PairsUnique == \A x \in DOMAIN PostTags : PostTags[x] = 1

\* C11 witness: two addTagsToPost calls on the same post both found a tag unassociated
\* and both ran the INSERT for it; the row is there once and one call was refused by
\* unique_post_tag.
C11_Witness ==
  \E p, q \in Procs :
    /\ p # q /\ Done(p, "addTagsToPost") /\ Done(q, "addTagsToPost")
    /\ proc[p].id = proc[q].id
    /\ proc[p].unassoc \cap proc[q].unassoc # {}
    /\ proc[p].status = "ok" /\ proc[q].status = "error" /\ proc[q].err = "Conflict"
    /\ \E t \in proc[p].unassoc \cap proc[q].unassoc : RowCount(PostTags, <<proc[p].id, t>>) = 1


\* C12: in every reachable state every Posts row and every Profiles row references a
\* Users row, and every PostTags row references a Posts row and a Tag, however
\* createPost, the profile creation of updateUser and addTagsToPost interleave with
\* deleteUser and deletePost.
C12_ReferentialIntegrity ==
  /\ \A r \in Posts : ById(Users, r.userId) # {}
  /\ \A r \in Profiles : ById(Users, r.userId) # {}
  /\ \A x \in DOMAIN PostTags : ById(Posts, x[1]) # {} /\ x[2] \in Tags

\* C12 witness: an updateUser with profile data found its user and no profile, a
\* deleteUser removed the user, and the Profile.create was refused by the foreign key.
C12_Witness ==
  \E p, q \in Procs :
    /\ Failed(p, "updateUser") /\ proc[p].err = "ForeignKey" /\ proc[p].preUsers # {}
    /\ Succeeded(q, "deleteUser") /\ proc[q].id = proc[p].id
    /\ ById(Users, proc[p].id) = {}


\* C13: in every reachable state no two Profiles rows have the same userId, also when
\* two updateUser calls with profile data run concurrently on a user without a profile
\* and both find no profile before either creates one.
C13_OneProfilePerUser == \A a, b \in Profiles : a # b => a.userId # b.userId

\* C13 witness: two updateUser calls with profile data on the same user both found no
\* profile; one created the profile and the other was refused by the unique index.
C13_Witness ==
  \E p, q \in Procs :
    /\ p # q /\ Succeeded(p, "updateUser") /\ Failed(q, "updateUser")
    /\ proc[p].id = proc[q].id
    /\ proc[p].profileData.given /\ proc[q].profileData.given
    /\ proc[p].prof = {} /\ proc[q].prof = {}
    /\ proc[p].preProfiles = {} /\ proc[q].preProfiles = {}
    /\ proc[q].err = "Conflict"
    /\ Cardinality(ByUserId(Profiles, proc[p].id)) = 1


\* C14: a step of a createUser or an updateUser changes the Users and Profiles tables,
\* which is what the reads of other requests see, only when it commits its
\* transaction; the step that rolls a transaction back leaves both tables as they
\* are; and a getUserById never returns the user of a
\* createUser with profile data without the profile.
C14_VisibleAtCommit ==
  [][\A p \in Procs :
       /\ (/\ proc[p].op \in {"createUser", "updateUser"} /\ proc'[p] # proc[p]
           /\ <<Users, Profiles>>' # <<Users, Profiles>>)
          => proc[p].tx = "open" /\ proc'[p].tx = "committed"
       /\ (proc[p].tx = "open" /\ proc'[p].tx = "rolledback")
          => <<Users, Profiles>>' = <<Users, Profiles>>
       /\ (proc'[p] # proc[p] /\ proc'[p].op = "getUserById" /\ proc'[p].status = "ok")
          => \A q \in Procs :
               (/\ proc[q].op = "createUser" /\ proc[q].id = proc'[p].id
                /\ proc[q].profileData.given)
               => proc'[p].result.profiles # {}]_vars

\* C14 witness: a getUserById read the id of a user that a createUser with profile data
\* had inserted and not yet committed, and found nothing; the createUser then committed
\* the user and its profile.
C14_Witness ==
  \E p, q \in Procs :
    /\ Succeeded(p, "createUser") /\ proc[p].profileData.given
    /\ Failed(q, "getUserById") /\ proc[q].id = proc[p].id /\ proc[q].err = "NotFound"
    /\ proc[p].n \in proc[q].rivals
    /\ ById(Users, proc[p].id) # {} /\ ByUserId(Profiles, proc[p].id) # {}


\* the number of published posts
Published == Cardinality({r \in Posts : r.isPublished})

\* C15: a getPublishedPosts for page pg >= 1 and limit s >= 1 over N published posts
\* returns total = N, totalPages = the least k with k * s >= N, and
\* min(s, max(0, N - (pg - 1) * s)) posts, all published and no post twice.
C15_PageArithmetic ==
  [][\A p \in Procs :
       (proc'[p] # proc[p] /\ proc'[p].op = "getPublishedPosts" /\ proc'[p].pc = "done")
       => LET r == proc'[p].result
              rest == Published - (r.page - 1) * r.limit
              items == IF rest < 0 THEN 0 ELSE IF rest < r.limit THEN rest ELSE r.limit
          IN /\ r.page >= 1 /\ r.limit >= 1
             /\ r.total = Published
             /\ r.totalPages * r.limit >= Published
             /\ (r.totalPages - 1) * r.limit < Published
             /\ Len(r.data) = items
             /\ \A i \in 1..Len(r.data) : \E x \in ById(Posts, r.data[i]) : x.isPublished
             /\ \A i, j \in 1..Len(r.data) : i # j => r.data[i] # r.data[j]]_vars

\* C15 witness: page 3 with limit 10 over 25 published posts holds 5 posts, and
\* totalPages is 3.
C15_Witness ==
  \E p \in Procs :
    /\ Succeeded(p, "getPublishedPosts") /\ Published = 25
    /\ proc[p].result.page = 3 /\ proc[p].result.limit = 10
    /\ proc[p].result.total = 25 /\ proc[p].result.totalPages = 3
    /\ Len(proc[p].result.data) = 5

\* C16: a getPublishedPosts called without its page or without its limit fails with a
\* validation error.
C16_OmittedParamsRejected ==
  \A p \in Procs :
    (Done(p, "getPublishedPosts") /\ (proc[p].pageArg = <<>> \/ proc[p].limitArg = <<>>))
    => proc[p].status = "error" /\ proc[p].err = "Validation"

\* C16 as amended: a getPublishedPosts called without its page reads page 1, called
\* without its limit reads 10 posts a page, and succeeds; called with neither it
\* returns the first 10 published posts, or all of them when there are fewer.
C16_OmittedParamsDefault ==
  \A p \in Procs :
    Done(p, "getPublishedPosts")
    => /\ proc[p].status = "ok"
       /\ proc[p].pageArg = <<>> => proc[p].result.page = 1
       /\ proc[p].limitArg = <<>> => proc[p].result.limit = 10
       /\ (proc[p].pageArg = <<>> /\ proc[p].limitArg = <<>>)
            => /\ Len(proc[p].result.data) = (IF Published < 10 THEN Published ELSE 10)
               /\ proc[p].result.total = Published

\* C16 witness: a getPublishedPosts without page and without limit returned 10 of more
\* than 10 published posts.
C16_Witness ==
  \E p \in Procs :
    /\ Succeeded(p, "getPublishedPosts")
    /\ proc[p].pageArg = <<>> /\ proc[p].limitArg = <<>>
    /\ Published > 10 /\ Len(proc[p].result.data) = 10


\* C17: a deleteUser or deletePost that itself deleted no row ends in the not-found
\* error, and of two deleteUser or two deletePost calls for the same id, one after the
\* other or interleaved between lookup and destroy, at most one reports success.
C17_DeleteReportsWhatItDid ==
  /\ \A p \in Procs :
       (proc[p].op \in {"deleteUser", "deletePost"} /\ proc[p].pc = "done" /\ ~proc[p].wrote)
       => proc[p].status = "error" /\ proc[p].err = "NotFound"
  /\ \A p, q \in Procs :
       (/\ p # q /\ proc[p].op \in {"deleteUser", "deletePost"} /\ proc[q].op = proc[p].op
        /\ proc[p].id = proc[q].id /\ proc[p].pc = "done" /\ proc[q].pc = "done")
       => ~(proc[p].status = "ok" /\ proc[q].status = "ok")


\* the row that an updateUser or updatePost of p is to change is in its table
TargetExists(p) ==
  IF proc[p].op = "updateUser" THEN ById(Users, proc[p].id) # {} ELSE ById(Posts, proc[p].id) # {}

\* C18: an updateUser or updatePost whose repository update finds the row gone, at the
\* lookup or at the UPDATE, ends in the not-found error in that step; and neither ever
\* succeeds with an empty entity as its result.
C18_UpdateOfMissingRowFails ==
  [][\A p \in Procs :
       /\ (/\ proc[p].pc \in {"uu_find", "uu_write", "up_find", "up_write"}
           /\ proc'[p] # proc[p] /\ ~TargetExists(p))
          => /\ proc'[p].pc = "done" /\ proc'[p].status = "error"
             /\ proc'[p].err = "NotFound"
       /\ (proc'[p] # proc[p] /\ proc'[p].pc = "done" /\ proc'[p].status = "ok")
          => /\ proc'[p].op = "updateUser" => proc'[p].result.users # {}
             /\ proc'[p].op = "updatePost" => proc'[p].result.posts # {}]_vars


\* C19: a finished addTagsToPost has either succeeded with the post as its result, or
\* failed; and a call that found the post gone after its existence check failed with
\* the not-found error, not with the foreign key error of the INSERT.
C19_AddTagsPostOrNotFound ==
  \A p \in Procs :
    Done(p, "addTagsToPost")
    => \/ proc[p].status = "ok" /\ proc[p].result.posts # {}
       \/ proc[p].status = "error" /\ proc[p].err # "ForeignKey"


\* C20: a finished createUser or updateUser that opened a transaction has ended it
\* exactly once: with one commit() and no rollback() when it returns, with one
\* rollback() and no commit() when it throws.
C20_TransactionEndedOnce ==
  \A p \in Procs :
    (proc[p].op \in {"createUser", "updateUser"} /\ proc[p].pc = "done" /\ proc[p].tx # "none")
    => /\ Len(proc[p].txEnds) = 1
       /\ proc[p].status = "ok" => proc[p].txEnds = <<"commit">>
       /\ proc[p].status = "error" => proc[p].txEnds = <<"rollback">>


\* C21: a createUser or updateUser that fails in a step of its try block has rolled its
\* transaction back, and the error it throws is the error of the step that failed.
C21_RollsBackAndReRaises ==
  \A p \in Procs :
    (/\ proc[p].op \in {"createUser", "updateUser"} /\ proc[p].pc = "done"
     /\ proc[p].status = "error" /\ proc[p].tx # "none")
    => proc[p].tx = "rolledback" /\ proc[p].err = proc[p].cause


\* C22: the posts a getUserPosts returns are ordered by creation time, newest first.
C22_NewestFirstByDefault ==
  \A p \in Procs :
    Succeeded(p, "getUserPosts")
    => proc[p].result.data = NewestFirst({r.id : r \in proc[p].result.posts})


\* p is a finished createUser for alice / alice@example.com with a profile of first
\* name Alice and the given last name, begun when no user had that username or email
AliceSignup(p, lastName) ==
  /\ Done(p, "createUser") /\ proc[p].tx # "none"
  /\ proc[p].userData.username = "alice" /\ proc[p].userData.email = "alice@example.com"
  /\ proc[p].profileData.given
  /\ proc[p].profileData.firstName = "Alice" /\ proc[p].profileData.lastName = lastName

\* the result of p is the user with its profile nested
ReturnsUserWithProfile(p) ==
  /\ proc[p].status = "ok"
  /\ \E u \in proc[p].result.users :
       /\ proc[p].result.users = {u}
       /\ u.id = proc[p].id /\ Carries(u, proc[p].userData)
       /\ \E r \in proc[p].result.profiles :
            /\ proc[p].result.profiles = {r}
            /\ r.userId = u.id /\ Carries(r, proc[p].profileData)

\* C23: served one request after the other, a createUser for alice /
\* alice@example.com with profile first name Alice and last name A, on a database
\* without that username and email, succeeds and returns the user with its profile.
C23_AliceWithLastNameA ==
  \A p \in Procs : AliceSignup(p, "A") => ReturnsUserWithProfile(p)

\* C23 as amended: that createUser fails with the validation error of the last name
\* (2 to 50 characters) and leaves no Users row and no Profiles row; with the last
\* name Smith it succeeds and returns the user with its profile.
C23_AliceLastNameChecked ==
  \A p \in Procs :
    /\ AliceSignup(p, "A")
       => /\ proc[p].status = "error" /\ proc[p].err = "Validation"
          /\ proc[p].tx = "rolledback" /\ NoRowsOf(p)
    /\ AliceSignup(p, "Smith") => ReturnsUserWithProfile(p)

\* C23 witness: the createUser with last name A was refused after its user was
\* inserted in the transaction.
C23_Witness ==
  \E p \in Procs : AliceSignup(p, "A") /\ proc[p].status = "error" /\ proc[p].wrote


\* C24: a createUser whose username or email (either one) is that of an existing
\* user ends at once with the conflict error, with no transaction opened and with
\* Users and Profiles as they were.
C24_ConflictBeforeAnyWrite ==
  [][\A p \in Procs :
       (/\ Free(p) /\ proc'[p] # proc[p] /\ proc'[p].op = "createUser"
        /\ \E c \in Users : \/ c.username = proc'[p].userData.username
                            \/ c.email = proc'[p].userData.email)
       => /\ proc'[p].pc = "done" /\ proc'[p].status = "error"
          /\ proc'[p].err = "Conflict"
          /\ proc'[p].tx = "none" /\ proc'[p].txEnds = <<>> /\ ~proc'[p].wrote
          /\ <<Users, Profiles>>' = <<Users, Profiles>>]_vars

\* C24 witness: a createUser was refused without a transaction for its email
\* alone, its username being free.
C24_Witness ==
  \E p \in Procs :
    /\ Failed(p, "createUser") /\ proc[p].err = "Conflict" /\ proc[p].tx = "none"
    /\ \E c \in Users : c.email = proc[p].userData.email
    /\ \A c \in Users : c.username # proc[p].userData.username


\* C25: every stored post has a title of 5 to 200 and a content of 10 to 5000
\* characters, whatever createPost and updatePost calls were made; and a createPost
\* for an existing user with a title of 4 characters fails with the validation
\* error and stores no post.
C25_PostLengthsKept ==
  /\ [](\A r \in Posts : /\ Len(r.title) \in TitleMin..TitleMax
                         /\ Len(r.content) \in ContentMin..ContentMax)
  /\ [][\A p \in Procs :
          (/\ proc[p].pc = "cp_create" /\ Len(proc[p].postData.title) = 4
           /\ proc'[p] # proc[p])
          => /\ proc'[p].pc = "done" /\ proc'[p].status = "error"
             /\ proc'[p].err = "Validation"
             /\ Posts' = Posts]_vars

\* C25 witness: a createPost with a title of 4 characters was refused, and a post
\* was given a new title by updatePost.
C25_Witness ==
  /\ \E p \in Procs : /\ Failed(p, "createPost") /\ proc[p].err = "Validation"
                      /\ Len(proc[p].postData.title) = 4
  /\ \E p \in Procs : Succeeded(p, "updatePost") /\ proc[p].wrote


\* C26: a createPost whose userId is the id of no user fails and stores no post, and
\* its error is the foreign-key (integrity) error, not the not-found error that
\* getUserById gives for a missing user.
C26_MissingAuthorIsIntegrityError ==
  [][\A p \in Procs :
       (/\ Free(p) /\ proc'[p] # proc[p] /\ proc'[p].op = "createPost"
        /\ ById(Users, proc'[p].id) = {})
       => /\ proc'[p].pc = "done" /\ proc'[p].status = "error"
          /\ Posts' = Posts
          /\ proc'[p].err = "ForeignKey"
          /\ \A q \in Procs : Failed(q, "getUserById") => proc[q].err # proc'[p].err]_vars


\* C27: the step in which a deletePost succeeds removes the post of its id and the
\* PostTags rows of that post, and nothing else: every other post keeps its row and
\* its PostTags rows, and Users and Profiles are as they were.
C27_DeletesOnlyThatPost ==
  [][\A p \in Procs :
       (proc[p].pc = "dp_destroy" /\ proc'[p] # proc[p])
       => /\ proc'[p].pc = "done" /\ proc'[p].status = "ok"
          /\ Posts' = {r \in Posts : r.id # proc[p].id}
          /\ DOMAIN PostTags' = {x \in DOMAIN PostTags : x[1] # proc[p].id}
          /\ \A x \in DOMAIN PostTags' : PostTags'[x] = PostTags[x]
          /\ <<Users, Profiles>>' = <<Users, Profiles>>]_vars

\* C27 witness: a deletePost removed a post that had tags, and another post with
\* tags is still there.
C27_Witness ==
  \E p \in Procs :
    /\ Succeeded(p, "deletePost") /\ proc[p].wrote
    /\ ById(Posts, proc[p].id) = {} /\ TagsOfPost(PostTags, proc[p].id) = {}
    /\ \E r \in Posts : TagsOfPost(PostTags, r.id) # {}


\* C28: when two addTagsToPost calls on the same post have both ended, the tags of
\* the post are a set that one of the calls asked for if both succeeded, and the
\* set of the call that succeeded if the other one failed.
C28_ConcurrentSetTagsSerial ==
  \A p, q \in Procs :
    (/\ p # q /\ Done(p, "addTagsToPost") /\ Done(q, "addTagsToPost")
     /\ proc[p].id = proc[q].id /\ proc[p].status = "ok")
    => \/ TagsOfPost(PostTags, proc[p].id) = Range(proc[p].tagIds)
       \/ /\ proc[q].status = "ok"
          /\ TagsOfPost(PostTags, proc[q].id) = Range(proc[q].tagIds)


\* C29: an addTagsToPost on an existing post is refused for its tags only if one of
\* the ids is the id of no tag; a list of ids of existing tags, one of them given
\* twice included, is not refused for its tags.
C29_RejectedOnlyForUnknownTag ==
  \A p \in Procs :
    (Failed(p, "addTagsToPost") /\ proc[p].err = "TagsNotFound")
    => \E i \in 1..Len(proc[p].tagIds) : proc[p].tagIds[i] \notin Tags


\* C30: a getPublishedPosts returns, on whatever page, only ids of stored posts
\* whose isPublished is true, never the id of an unpublished post, and its total is
\* the number of stored posts whose isPublished is true, whatever createPost,
\* updatePost and deletePost calls came before.
C30_OnlyPublishedListed ==
  [][\A p \in Procs :
       (Free(p) /\ proc'[p] # proc[p] /\ proc'[p].op = "getPublishedPosts")
       => LET res == proc'[p].result
          IN /\ proc'[p].status = "ok"
             /\ \A i \in 1..Len(res.data) :
                  \E r \in Posts : r.id = res.data[i] /\ r.isPublished = TRUE
             /\ \A r \in Posts : r.isPublished = FALSE => r.id \notin Range(res.data)
             /\ res.total = Cardinality({r \in Posts : r.isPublished = TRUE})]_vars

\* C30 witness: an updatePost unpublished a post, and the getPublishedPosts after it
\* lists posts and counts one fewer than the seeder published.
C30_Witness ==
  \E p, q \in Procs :
    /\ Succeeded(p, "updatePost") /\ proc[p].wrote
    /\ \E r \in Posts : r.id = proc[p].id /\ ~r.isPublished
    /\ Succeeded(q, "getPublishedPosts")
    /\ proc[q].result.data # <<>> /\ proc[q].result.total = 1


====
